---- MODULE Spec2Model ----
(***************************************************************************)
(* HLPC-Server (src/hlpc-server.py) and its agent (src/hlpc-agent.py).     *)
(*                                                                         *)
(* Two parts of the program are modelled:                                  *)
(*   - the listener thread (serverListen) and the per-connection session   *)
(*     threads (handleClient), over a byte-level TCP stream;               *)
(*   - the lifecycle invocations of __main__ (--start, --stop, --control)  *)
(*     that talk to each other through marker files in the data folder.    *)
(*                                                                         *)
(* Bytes are one-character strings; a byte string is a sequence of them.   *)
(***************************************************************************)
EXTENDS Integers, Sequences, FiniteSets, TLC

(***************************************************************************)
(* Bounds of the model.                                                    *)
(***************************************************************************)
\* connections the clients open
MaxConn == 2
\* frames / raw headers the clients send, over all connections
MaxSends == 2
\* recv calls that return fewer bytes than are available, over all connections
MaxShortReads == 1
\* the most bytes such a short read returns
MaxShortLen == 2

(***************************************************************************)
(* Program constants.                                                      *)
(***************************************************************************)
\* hlpc-server.py:267  headerLength = 64
headerLength == 64
\* hlpc-agent.py:7  HEADER = 64
HEADER == 64
\* hlpc-server.py:266  disconnect = '!DISCONNECT'
disconnect == <<"!", "D", "I", "S", "C", "O", "N", "N", "E", "C", "T">>
\* hlpc-server.py:309  "Msg received"
AckMsg == "Msg received"
\* hlpc-server.py:91  default=5540
DefaultPort == 5540
\* hlpc-server.py:481  time.sleep(5)
PollInterval == 5
\* hlpc-server.py:600  time.sleep(20)
StopWait == 20

(***************************************************************************)
(* Byte strings.                                                           *)
(***************************************************************************)
Digits == <<"0", "1", "2", "3", "4", "5", "6", "7", "8", "9">>

DigitSet == {Digits[i] : i \in 1..10}

DigitVal(c) == (CHOOSE i \in 1..10 : Digits[i] = c) - 1

Spaces(n) == [i \in 1..n |-> " "]

Min(a, b) == IF a < b THEN a ELSE b

\* str(n) for n >= 0
RECURSIVE DecStr(_)
DecStr(n) == IF n < 10 THEN <<Digits[n + 1]>>
             ELSE DecStr(n \div 10) \o <<Digits[(n % 10) + 1]>>

\* hlpc-agent.py send(): the header the agent sends for a message
AgentHeader(message) ==
    LET send_length == DecStr(Len(message))
    IN  IF HEADER - Len(send_length) > 0
        THEN send_length \o Spaces(HEADER - Len(send_length))
        ELSE send_length

\* hlpc-agent.py send(): header, then the message bytes
AgentEncode(message) == AgentHeader(message) \o message

\* str.strip() as int() applies it: leading and trailing blanks dropped
RECURSIVE LStrip(_)
LStrip(h) == IF h # <<>> /\ Head(h) = " " THEN LStrip(Tail(h)) ELSE h

RECURSIVE RStrip(_)
RStrip(h) == IF h # <<>> /\ h[Len(h)] = " " THEN RStrip(SubSeq(h, 1, Len(h) - 1)) ELSE h

\* an int() that drops leading blanks only
LStripOnly(h) == LStrip(h)

Strip(h) == RStrip(LStrip(h))

\* the digits of a stripped int() literal, its sign removed
Unsigned(t) == IF t # <<>> /\ Head(t) \in {"+", "-"} THEN Tail(t) ELSE t

RECURSIVE DigitsVal(_)
DigitsVal(d) == IF d = <<>> THEN 0
                ELSE 10 * DigitsVal(SubSeq(d, 1, Len(d) - 1)) + DigitVal(d[Len(d)])

\* int(header) succeeds: blanks, an optional sign, one or more decimal digits
IntOk(h) ==
    LET d == Unsigned(Strip(h))
    IN  d # <<>> /\ \A i \in 1..Len(d) : d[i] \in DigitSet

\* int(header) when it succeeds
IntVal(h) ==
    LET t == Strip(h)
        v == DigitsVal(Unsigned(t))
    IN  IF Head(t) = "-" THEN 0 - v ELSE v

(***************************************************************************)
(* What the clients send.                                                  *)
(***************************************************************************)
HeyThere == <<"H", "e", "y", " ", "t", "h", "e", "r", "e">>

\* message payloads a client frames with the agent's send()
Payloads == {disconnect, HeyThere, <<"1", "2">>, <<>>}

\* stands in the history for bytes a client sent that are no frame
Junk == <<"?">>

\* 64-byte headers that are not the length of anything
BadHeaders == {<<"x">> \o Spaces(HEADER - 1), <<"-", "1">> \o Spaces(HEADER - 2)}

Conns == 1..MaxConn

\* the invocations of the program: python hlpc-server.py --start | --stop | --control
Starts == {"start1", "start2"}

Stops == {"stop1"}

Controls == {"control1"}

Procs == Starts \cup Stops \cup Controls

\* the marker files of the data folder (lines 28, 34, 38)
Markers == {"outageRequested", "serverRunning", "shutdownRequested"}

\* the ports a start invocation is given with -p
Ports == {DefaultPort, DefaultPort + 1}

\* the age of the shutdown request is not counted past this
AgeCap == StopWait + 1

VARIABLES
    \* --- listener thread (serverListen) of the server on the default port
    pending,      \* connections established and not yet accepted, oldest first
    lpc,          \* listener position: "off" | "accept" | "log"
    activeLog,    \* the counts logged as "Active Client Connections"
    \* --- session threads (handleClient), per connection
    pc,           \* "none" | "header" | "payload" | "ack" | "closing" | "closed" |
                  \* "crashed" | "killed"
    connected,    \* the local variable connected
    msgLength,    \* the local variable msgLength
    msg,          \* the local variable msg
    sockOpen,     \* conn is open: accepted and conn.close() not yet called
    out,          \* what the server has sent on the connection
    \* --- the client side of each connection
    cst,          \* "idle" | "open" | "closed" | "reset"
    inbuf,        \* bytes sent by the client and not yet read by the server
    \* --- history of the sessions
    nSends,       \* client sends so far
    sent,         \* what each client has sent: the messages it framed, Junk for others
    nShort,       \* short reads so far
    rpos,         \* bytes of the stream the session has read
    marks,        \* stream offsets where the client started a frame or header
    intact,       \* every recv of the session returned as many bytes as it asked for
    log,          \* what each session did, in order
    \* --- the file system and the network
    dataDir,      \* os.path.exists(dataPath)
    markers,      \* which marker files exist
    portOwner,    \* the invocation bound to each port, or "none"
    \* --- the main thread of each invocation
    ppc,          \* its position ("idle" before it is run, "exited" after)
    timer,        \* time units left of its time.sleep
    port,         \* argsObj.port of a start invocation
    pwrOutSim,    \* argsObj.pwrOutSim of a control invocation
    exitCode,     \* the exit status of the process (-1 while there is none)
    report,       \* what the invocation reported last
    \* --- history of the invocations
    trigger,      \* why a server called serverStop: "interrupt" | "poll" | "none"
    sockCreated,  \* the invocation created its server socket
    made,         \* the markers the invocation created
    removed,      \* the markers the invocation deleted
    slept,        \* time units a stop invocation has waited
    reqAge        \* time units since shutdownRequested was created (capped)

svars == <<pending, lpc, activeLog, pc, connected, msgLength, msg, sockOpen, out,
           cst, inbuf, nSends, sent, nShort, rpos, marks, intact, log>>

\* what the lifecycle invocations share with the threads of the server
tvars == <<pending, lpc, pc, sockOpen>>

\* the session state the lifecycle never touches
sOnly == <<activeLog, connected, msgLength, msg, out, cst, inbuf, nSends, sent, nShort,
           rpos, marks, intact, log>>

lvars == <<dataDir, markers, portOwner, ppc, timer, port, pwrOutSim, exitCode, report,
           trigger, sockCreated, made, removed, slept, reqAge>>

vars == <<svars, lvars>>

(***************************************************************************)
(* The TCP stream as the session sees it.                                  *)
(***************************************************************************)
\* conn.recv and conn.send raise once the peer has reset the connection
IOError(s) == cst[s] = "reset"

\* conn.recv(n) returns: it blocks while nothing has arrived and the peer is open
RecvReady(s, n) == n = 0 \/ inbuf[s] # <<>> \/ cst[s] = "closed"

\* the byte counts conn.recv(n) may return: all that is there up to n, or,
\* when only part of it has arrived yet, a smaller positive count
RecvCounts(s, n) ==
    LET full == Min(n, Len(inbuf[s]))
    IN  {full} \cup (IF nShort < MaxShortReads
                      THEN 1..Min(full - 1, MaxShortLen) ELSE {})

Logged(s, e) == [log EXCEPT ![s] = Append(@, e)]

\* an exception in a session thread that takes the other session threads with it
CrashAll(s, e) ==
    /\ pc' = [t \in Conns |->
                 IF t = s THEN "crashed"
                 ELSE IF pc[t] \in {"header", "payload", "ack", "closing"} THEN "killed"
                 ELSE pc[t]]
    /\ log' = Logged(s, e)
    /\ UNCHANGED <<connected, msgLength, msg, sockOpen, out, inbuf, nShort, rpos, intact>>

\* the session thread dies with an unhandled exception: conn.close() is not reached
Crash(s, e) ==
    /\ pc' = [pc EXCEPT ![s] = "crashed"]
    /\ log' = Logged(s, e)
    /\ UNCHANGED <<connected, msgLength, msg, sockOpen, out, inbuf, nShort, rpos, intact>>

\* k bytes leave the stream, read by a recv that asked for n
Consume(s, n, k) ==
    /\ inbuf' = [inbuf EXCEPT ![s] = SubSeq(@, k + 1, Len(@))]
    /\ rpos' = [rpos EXCEPT ![s] = @ + k]
    /\ nShort' = IF k < Min(n, Len(inbuf[s])) THEN nShort + 1 ELSE nShort
    /\ intact' = [intact EXCEPT ![s] = @ /\ (k = n \/ (k = 0 /\ inbuf[s] = <<>>))]

(***************************************************************************)
(* handleClient                                                            *)
(***************************************************************************)
\* lines 280-292: header = conn.recv(headerLength); if header: msgLength = int(header)
RecvHeader(s) ==
    /\ pc[s] = "header"
    /\ UNCHANGED <<pending, lpc, activeLog, cst, nSends, sent, marks, lvars>>
    /\ IF IOError(s)
       THEN Crash(s, "ioerr")
       ELSE /\ RecvReady(s, headerLength)
            /\ \E k \in RecvCounts(s, headerLength) :
                 LET header == SubSeq(inbuf[s], 1, k) IN
                 IF header = <<>>
                 THEN \* "if header:" is false and connected is still True:
                      \* the loop comes back to the recv
                      /\ log' = IF log[s] # <<>> /\ log[s][Len(log[s])] = "empty"
                                THEN log ELSE Logged(s, "empty")
                      /\ UNCHANGED <<pc, connected, msgLength, msg, sockOpen, out,
                                     inbuf, nShort, rpos, intact>>
                 ELSE IF ~IntOk(header)
                 THEN \* int(header) raises ValueError
                      /\ pc' = [pc EXCEPT ![s] = "crashed"]
                      /\ log' = Logged(s, "valerr")
                      /\ Consume(s, headerLength, k)
                      /\ UNCHANGED <<connected, msgLength, msg, sockOpen, out>>
                 ELSE /\ pc' = [pc EXCEPT ![s] = "payload"]
                      /\ msgLength' = [msgLength EXCEPT ![s] = IntVal(header)]
                      /\ log' = Logged(s, "hdr")
                      /\ Consume(s, headerLength, k)
                      /\ UNCHANGED <<connected, msg, sockOpen, out>>

\* lines 296-305: msg = conn.recv(msgLength); if msg == disconnect: connected = False
RecvPayload(s) ==
    /\ pc[s] = "payload"
    /\ UNCHANGED <<pending, lpc, activeLog, cst, nSends, sent, marks, lvars>>
    /\ IF msgLength[s] < 0
       THEN \* recv raises ValueError: negative buffersize in recv
            Crash(s, "valerr")
       ELSE IF IOError(s)
       THEN Crash(s, "ioerr")
       ELSE /\ RecvReady(s, msgLength[s])
            /\ \E k \in RecvCounts(s, msgLength[s]) :
                 LET m == SubSeq(inbuf[s], 1, k) IN
                 /\ msg' = [msg EXCEPT ![s] = m]
                 /\ connected' = [connected EXCEPT ![s] = IF m = disconnect THEN FALSE ELSE @]
                 /\ pc' = [pc EXCEPT ![s] = "ack"]
                 /\ log' = Logged(s, IF m = disconnect THEN "disc" ELSE "pay")
                 /\ Consume(s, msgLength[s], k)
                 /\ UNCHANGED <<msgLength, sockOpen, out>>

\* a loop test that never ends the session
LoopNextForever(s) == "header"

\* line 280: while connected
LoopNext(s) == IF connected[s] THEN "header" ELSE "closing"

\* an acknowledgment that is left out for an empty message
AckedUnlessEmpty(s) == IF msg[s] = <<>> THEN out[s] ELSE Append(out[s], AckMsg)

\* line 309: conn.send("Msg received".encode(format))
Acked(s) == Append(out[s], AckMsg)

\* line 309, then the loop test of line 280
SendAck(s) ==
    /\ pc[s] = "ack"
    /\ UNCHANGED <<pending, lpc, activeLog, cst, nSends, sent, marks, lvars>>
    /\ IF IOError(s)
       THEN Crash(s, "ioerr")
       ELSE /\ out' = [out EXCEPT ![s] = Acked(s)]
            /\ pc' = [pc EXCEPT ![s] = LoopNext(s)]
            /\ log' = Logged(s, "ack")
            /\ UNCHANGED <<connected, msgLength, msg, sockOpen, inbuf, nShort, rpos, intact>>

\* lines 311-315: conn.close(), and the thread ends
CloseConn(s) ==
    /\ pc[s] = "closing"
    /\ pc' = [pc EXCEPT ![s] = "closed"]
    /\ sockOpen' = [sockOpen EXCEPT ![s] = FALSE]
    /\ log' = Logged(s, "close")
    /\ UNCHANGED <<pending, lpc, activeLog, connected, msgLength, msg, out, cst, inbuf,
                   nSends, sent, nShort, rpos, marks, intact, lvars>>

(***************************************************************************)
(* serverListen                                                            *)
(***************************************************************************)
\* session threads that are alive
Alive == {s \in Conns : pc[s] \in {"header", "payload", "ack", "closing"}}

\* lines 330-339: accept a connection and start its handleClient thread
Accept ==
    /\ lpc = "accept"
    /\ pending # <<>>
    /\ LET s == Head(pending) IN
         /\ pc' = [pc EXCEPT ![s] = "header"]
         /\ connected' = [connected EXCEPT ![s] = TRUE]
         /\ sockOpen' = [sockOpen EXCEPT ![s] = TRUE]
    /\ pending' = Tail(pending)
    /\ lpc' = "log"
    /\ UNCHANGED <<activeLog, msgLength, msg, out, cst, inbuf, nSends, sent, nShort, rpos,
                   marks, intact, log, lvars>>

\* line 343: threading.active_count() - 2; the threads are the main thread, the
\* listener thread and the session threads that are alive
LogActive ==
    /\ lpc = "log"
    /\ activeLog' = Append(activeLog, (Cardinality(Alive) + 2) - 2)
    /\ lpc' = "accept"
    /\ UNCHANGED <<pending, pc, connected, msgLength, msg, sockOpen, out, cst, inbuf,
                   nSends, sent, nShort, rpos, marks, intact, log, lvars>>

(***************************************************************************)
(* The clients                                                             *)
(***************************************************************************)
\* a client connects to the default port; the kernel queues the connection
ClientConnect(s) ==
    /\ cst[s] = "idle"
    /\ \A t \in Conns : t < s => cst[t] # "idle"
    /\ portOwner[DefaultPort] # "none"
    /\ cst' = [cst EXCEPT ![s] = "open"]
    /\ pending' = Append(pending, s)
    /\ UNCHANGED <<lpc, activeLog, pc, connected, msgLength, msg, sockOpen, out, inbuf,
                   nSends, sent, nShort, rpos, marks, intact, log, lvars>>

\* the client writes bytes that start at a frame boundary
ClientWrite(s, bytes, item) ==
    /\ cst[s] = "open"
    /\ nSends < MaxSends
    /\ nSends' = nSends + 1
    /\ sent' = [sent EXCEPT ![s] = Append(@, item)]
    /\ marks' = [marks EXCEPT ![s] = @ \cup {rpos[s] + Len(inbuf[s]) + Len(bytes)}]
    /\ inbuf' = [inbuf EXCEPT ![s] = @ \o bytes]
    /\ UNCHANGED <<pending, lpc, activeLog, pc, connected, msgLength, msg, sockOpen, out,
                   cst, nShort, rpos, intact, log, lvars>>

\* hlpc-agent.py send(msg): client.send(send_length); client.send(message)
ClientSendFrame(s, message) == ClientWrite(s, AgentEncode(message), message)

\* a client that does not speak the protocol
ClientSendBadHeader(s, h) == ClientWrite(s, h, Junk)

\* the client closes its socket (FIN): the server's recv returns b'' at the end
ClientClose(s) ==
    /\ cst[s] = "open"
    /\ cst' = [cst EXCEPT ![s] = "closed"]
    /\ UNCHANGED <<pending, lpc, activeLog, pc, connected, msgLength, msg, sockOpen, out,
                   inbuf, nSends, sent, nShort, rpos, marks, intact, log, lvars>>

\* the connection breaks (RST): the server's next recv or send raises
ClientReset(s) ==
    /\ cst[s] \in {"open", "closed"}
    /\ cst' = [cst EXCEPT ![s] = "reset"]
    /\ UNCHANGED <<pending, lpc, activeLog, pc, connected, msgLength, msg, sockOpen, out,
                   inbuf, nSends, sent, nShort, rpos, marks, intact, log, lvars>>

(***************************************************************************)
(* The invocations: helpers                                                *)
(***************************************************************************)
\* a cleanup that forgets the shutdown marker
CleanOrderShort == <<"outageRequested", "serverRunning">>

\* the order in which cleanup() looks at the markers (lines 411, 417, 423)
CleanOrder == <<"outageRequested", "serverRunning", "shutdownRequested">>

\* the position of cleanup() before each os.path.exists
ChkPc == <<"c1chk", "c2chk", "c3chk">>

\* the position of cleanup() before each os.unlink
RmPc == <<"c1rm", "c2rm", "c3rm">>

\* where the caller of cleanup() continues: serverStop (line 450) or the stop
\* invocation (line 580)
AfterClean(p) == IF p \in Starts THEN "srvExitOk" ELSE "stopIdleExit"

\* a cleanup that returns after its second marker
CleanNextEarly(p, i) == IF i < 2 THEN ChkPc[i + 1] ELSE AfterClean(p)

\* position i + 1 of cleanup(), or the return to the caller
CleanNext(p, i) == IF i < Len(CleanOrder) THEN ChkPc[i + 1] ELSE AfterClean(p)

\* no invocation can take a step: each is not running, or in a time.sleep
Quiet == \A p \in Procs :
            \/ ppc[p] \in {"idle", "exited"}
            \/ ppc[p] \in {"sleep", "s_wait"} /\ timer[p] > 0

\* the invocation moves on and nothing else happens
Goto(p, to) ==
    /\ ppc' = [ppc EXCEPT ![p] = to]
    /\ UNCHANGED <<dataDir, markers, portOwner, timer, port, pwrOutSim, exitCode, report,
                   trigger, sockCreated, made, removed, slept, reqAge, svars>>

\* the process ends with an exit status: its sockets are closed by the system and
\* its daemon threads (the listener and the sessions) end with it
Exit(p, code, rep) ==
    /\ ppc' = [ppc EXCEPT ![p] = "exited"]
    /\ exitCode' = [exitCode EXCEPT ![p] = code]
    /\ report' = [report EXCEPT ![p] = rep]
    /\ timer' = [timer EXCEPT ![p] = 0]
    /\ portOwner' = [q \in Ports |-> IF portOwner[q] = p THEN "none" ELSE portOwner[q]]
    /\ IF portOwner[DefaultPort] = p
       THEN /\ lpc' = "off"
            /\ pending' = <<>>
            /\ pc' = [s \in Conns |-> IF s \in Alive THEN "killed" ELSE pc[s]]
            /\ sockOpen' = [s \in Conns |-> FALSE]
       ELSE UNCHANGED tvars
    /\ UNCHANGED <<port, pwrOutSim, trigger, sockCreated, slept, sOnly>>

\* sys.exit(): no status is given, so the exit status is 0
SysExit(p, rep) ==
    /\ Exit(p, 0, rep)
    /\ UNCHANGED <<dataDir, markers, made, removed, reqAge>>

\* an exception nobody catches ends the process with a traceback and status 1
Uncaught(p, rep) ==
    /\ Exit(p, 1, rep)
    /\ UNCHANGED <<dataDir, markers, made, removed, reqAge>>

\* the user runs the invocation
Begin(p) ==
    /\ ppc' = [ppc EXCEPT ![p] = IF p \in Starts THEN "chkData"
                                  ELSE IF p \in Stops THEN "s_chkData" ELSE "k_flag"]
    /\ IF p \in Starts
       THEN \E q \in Ports : port' = [port EXCEPT ![p] = q]
       ELSE UNCHANGED port
    /\ IF p \in Controls
       THEN \E f \in BOOLEAN : pwrOutSim' = [pwrOutSim EXCEPT ![p] = f]
       ELSE UNCHANGED pwrOutSim
    /\ exitCode' = [exitCode EXCEPT ![p] = -1]
    /\ report' = [report EXCEPT ![p] = "none"]
    /\ trigger' = [trigger EXCEPT ![p] = "none"]
    /\ sockCreated' = [sockCreated EXCEPT ![p] = FALSE]
    /\ made' = [made EXCEPT ![p] = {}]
    /\ removed' = [removed EXCEPT ![p] = {}]
    /\ slept' = [slept EXCEPT ![p] = 0]
    /\ UNCHANGED <<dataDir, markers, portOwner, timer, reqAge, svars>>

\* an invocation is run for the first time
Launch(p) == ppc[p] = "idle" /\ Begin(p)

\* an invocation is run again after it has ended
Relaunch(p) == ppc[p] = "exited" /\ Begin(p)

(***************************************************************************)
(* --start: preServerInitChecks, serverInit, serverDaemon                  *)
(***************************************************************************)
\* line 147: if not(os.path.exists(dataPath))
StartChkData(p) ==
    /\ p \in Starts /\ ppc[p] = "chkData"
    /\ Goto(p, IF dataDir THEN "chkRunning" ELSE "mkData")

\* lines 154-165: os.makedirs(dataPath); on an exception log it and sys.exit()
StartMkData(p) ==
    /\ p \in Starts /\ ppc[p] = "mkData"
    /\ \E ok \in BOOLEAN :
         IF ok /\ ~dataDir
         THEN /\ dataDir' = TRUE
              /\ ppc' = [ppc EXCEPT ![p] = "chkRunning"]
              /\ UNCHANGED <<markers, portOwner, timer, port, pwrOutSim, exitCode, report,
                             trigger, sockCreated, made, removed, slept, reqAge, svars>>
         ELSE SysExit(p, "mkdirFailed")

\* a check that deletes the marker it finds before it gives up
StartChkRunningUnlink(p) ==
    /\ p \in Starts /\ ppc[p] = "chkRunning"
    /\ IF markers["serverRunning"]
       THEN /\ markers' = [markers EXCEPT !["serverRunning"] = FALSE]
            /\ removed' = [removed EXCEPT ![p] = @ \cup {"serverRunning"}]
            /\ Exit(p, 0, "alreadyRunning")
            /\ UNCHANGED <<dataDir, made, reqAge>>
       ELSE Goto(p, "bind")

\* lines 178-188: if os.path.exists(serverRunningPath): log it and sys.exit()
StartChkRunning(p) ==
    /\ p \in Starts /\ ppc[p] = "chkRunning"
    /\ IF markers["serverRunning"]
       THEN SysExit(p, "alreadyRunning")
       ELSE Goto(p, "bind")

\* a serverInit that logs the failed bind and carries on
StartBindCarryOn(p) ==
    /\ p \in Starts /\ ppc[p] = "bind"
    /\ \E ok \in BOOLEAN :
         IF ok /\ portOwner[port[p]] = "none"
         THEN /\ portOwner' = [portOwner EXCEPT ![port[p]] = p]
              /\ sockCreated' = [sockCreated EXCEPT ![p] = TRUE]
              /\ ppc' = [ppc EXCEPT ![p] = "mkRunning"]
              /\ UNCHANGED <<dataDir, markers, timer, port, pwrOutSim, exitCode, report,
                             trigger, made, removed, slept, reqAge, svars>>
         ELSE Goto(p, "mkRunning")

\* lines 206-240: socket.socket(); bind((ip, port)); on an exception log it and
\* sys.exit(), else listen()
StartBind(p) ==
    /\ p \in Starts /\ ppc[p] = "bind"
    /\ \E ok \in BOOLEAN :
         IF ok /\ portOwner[port[p]] = "none"
         THEN /\ portOwner' = [portOwner EXCEPT ![port[p]] = p]
              /\ sockCreated' = [sockCreated EXCEPT ![p] = TRUE]
              /\ ppc' = [ppc EXCEPT ![p] = "mkRunning"]
              /\ UNCHANGED <<dataDir, markers, timer, port, pwrOutSim, exitCode, report,
                             trigger, made, removed, slept, reqAge, svars>>
         ELSE /\ Exit(p, 0, "bindFailed")
              /\ UNCHANGED <<dataDir, markers, made, removed, reqAge>>

\* line 252: open(serverRunningPath, 'w').close()
StartMkRunning(p) ==
    /\ p \in Starts /\ ppc[p] = "mkRunning"
    /\ markers' = [markers EXCEPT !["serverRunning"] = TRUE]
    /\ made' = [made EXCEPT ![p] = @ \cup {"serverRunning"}]
    /\ ppc' = [ppc EXCEPT ![p] = "daemon"]
    /\ UNCHANGED <<dataDir, portOwner, timer, port, pwrOutSim, exitCode, report, trigger,
                   sockCreated, removed, slept, reqAge, svars>>

\* lines 465-481: start the serverListen thread, then time.sleep(5)
StartDaemon(p) ==
    /\ p \in Starts /\ ppc[p] = "daemon"
    /\ ppc' = [ppc EXCEPT ![p] = "sleep"]
    /\ timer' = [timer EXCEPT ![p] = PollInterval]
    /\ lpc' = IF port[p] = DefaultPort THEN "accept" ELSE lpc
    /\ UNCHANGED <<pending, pc, sockOpen, sOnly, dataDir, markers, portOwner, port,
                   pwrOutSim, exitCode, report, trigger, sockCreated, made, removed,
                   slept, reqAge>>

\* a poll loop that never looks at the shutdown marker
PollShutdownBlind(p) ==
    /\ p \in Starts /\ ppc[p] = "sleep" /\ timer[p] = 0
    /\ timer' = [timer EXCEPT ![p] = PollInterval]
    /\ UNCHANGED <<ppc, trigger, dataDir, markers, portOwner, port, pwrOutSim, exitCode,
                   report, sockCreated, made, removed, slept, reqAge, svars>>

\* lines 481-504: the sleep is over; if os.path.exists(serverShutdownFilePath):
\* serverStop(), else sleep again
PollShutdown(p) ==
    /\ p \in Starts /\ ppc[p] = "sleep" /\ timer[p] = 0
    /\ IF markers["shutdownRequested"]
       THEN /\ ppc' = [ppc EXCEPT ![p] = ChkPc[1]]
            /\ trigger' = [trigger EXCEPT ![p] = "poll"]
            /\ UNCHANGED timer
       ELSE /\ timer' = [timer EXCEPT ![p] = PollInterval]
            /\ UNCHANGED <<ppc, trigger>>
    /\ UNCHANGED <<dataDir, markers, portOwner, port, pwrOutSim, exitCode, report,
                   sockCreated, made, removed, slept, reqAge, svars>>

\* lines 483-492: KeyboardInterrupt during time.sleep(5): serverStop()
Interrupt(p) ==
    /\ p \in Starts /\ ppc[p] = "sleep" /\ timer[p] > 0
    /\ ppc' = [ppc EXCEPT ![p] = ChkPc[1]]
    /\ trigger' = [trigger EXCEPT ![p] = "interrupt"]
    /\ timer' = [timer EXCEPT ![p] = 0]
    /\ UNCHANGED <<dataDir, markers, portOwner, port, pwrOutSim, exitCode, report,
                   sockCreated, made, removed, slept, reqAge, svars>>

(***************************************************************************)
(* cleanup, called by serverStop and by the stop invocation                *)
(***************************************************************************)
\* lines 411, 417, 423: if os.path.exists(<marker>)
CleanChk(p, i) ==
    /\ p \in Starts \cup Stops /\ ppc[p] = ChkPc[i]
    /\ Goto(p, IF markers[CleanOrder[i]] THEN RmPc[i] ELSE CleanNext(p, i))

\* lines 413, 419, 425: os.unlink(<marker>); it raises FileNotFoundError when the
\* file is gone by now: serverStop catches that (line 443), the stop invocation
\* does not
CleanRm(p, i) ==
    /\ p \in Starts \cup Stops /\ ppc[p] = RmPc[i]
    /\ IF markers[CleanOrder[i]]
       THEN /\ markers' = [markers EXCEPT ![CleanOrder[i]] = FALSE]
            /\ removed' = [removed EXCEPT ![p] = @ \cup {CleanOrder[i]}]
            /\ reqAge' = IF CleanOrder[i] = "shutdownRequested" THEN 0 ELSE reqAge
            /\ ppc' = [ppc EXCEPT ![p] = CleanNext(p, i)]
            /\ UNCHANGED <<dataDir, portOwner, timer, port, pwrOutSim, exitCode, report,
                           trigger, sockCreated, made, slept, svars>>
       ELSE IF p \in Starts
            THEN Goto(p, "srvExitErr")
            ELSE Uncaught(p, "crashed")

\* lines 443-455: serverStop logs how cleanup went, then sys.exit()
ServerExit(p) ==
    /\ p \in Starts /\ ppc[p] \in {"srvExitOk", "srvExitErr"}
    /\ SysExit(p, IF ppc[p] = "srvExitOk" THEN "stopped" ELSE "stoppedNoCleanup")

(***************************************************************************)
(* --stop                                                                  *)
(***************************************************************************)
\* lines 561-563: if not(os.path.exists(dataPath)): log it and sys.exit()
StopChkData(p) ==
    /\ p \in Stops /\ ppc[p] = "s_chkData"
    /\ IF dataDir THEN Goto(p, "s_chkRunning") ELSE SysExit(p, "nothingRunning")

\* lines 568-576, 584: if not(os.path.exists(serverRunningPath)): cleanup()
StopChkRunning(p) ==
    /\ p \in Stops /\ ppc[p] = "s_chkRunning"
    /\ Goto(p, IF markers["serverRunning"] THEN "s_mkShutdown" ELSE ChkPc[1])

\* line 580: sys.exit() after cleanup()
StopExitIdle(p) ==
    /\ p \in Stops /\ ppc[p] = "stopIdleExit"
    /\ SysExit(p, "alreadyStopped")

\* lines 592-600: open(serverShutdownFilePath, 'w').close(); time.sleep(20)
StopMkShutdown(p) ==
    /\ p \in Stops /\ ppc[p] = "s_mkShutdown"
    /\ markers' = [markers EXCEPT !["shutdownRequested"] = TRUE]
    /\ made' = [made EXCEPT ![p] = @ \cup {"shutdownRequested"}]
    /\ reqAge' = 0
    /\ ppc' = [ppc EXCEPT ![p] = "s_wait"]
    /\ timer' = [timer EXCEPT ![p] = StopWait]
    /\ UNCHANGED <<dataDir, portOwner, port, pwrOutSim, exitCode, report, trigger,
                   sockCreated, removed, slept, svars>>

\* a stop invocation that deletes the marker of a server that did not stop
StopCheckUnlink(p) ==
    /\ p \in Stops /\ ppc[p] = "s_wait" /\ timer[p] = 0
    /\ IF markers["serverRunning"]
       THEN /\ markers' = [markers EXCEPT !["serverRunning"] = FALSE]
            /\ removed' = [removed EXCEPT ![p] = @ \cup {"serverRunning"}]
            /\ Exit(p, 0, "stopTimeout")
            /\ UNCHANGED <<dataDir, made, reqAge>>
       ELSE SysExit(p, "stopOk")

\* lines 604-624: the sleep is over; if os.path.exists(serverRunningPath): log the
\* error, else log the success; sys.exit() either way
StopCheck(p) ==
    /\ p \in Stops /\ ppc[p] = "s_wait" /\ timer[p] = 0
    /\ SysExit(p, IF markers["serverRunning"] THEN "stopTimeout" ELSE "stopOk")

(***************************************************************************)
(* --control: forceOutage                                                  *)
(***************************************************************************)
\* lines 542-552: if argsObj.pwrOutSim: forceOutage(), else log an error; the
\* script ends
ControlFlag(p) ==
    /\ p \in Controls /\ ppc[p] = "k_flag"
    /\ IF pwrOutSim[p] THEN Goto(p, "k_chk1") ELSE SysExit(p, "noCommand")

\* a forceOutage that creates the marker whether or not there is one
ControlChk1Force(p) ==
    /\ p \in Controls /\ ppc[p] = "k_chk1"
    /\ Goto(p, "k_mk")

\* lines 379-383: if os.path.exists(outageFilePath): log that one is pending
ControlChk1(p) ==
    /\ p \in Controls /\ ppc[p] = "k_chk1"
    /\ IF markers["outageRequested"] THEN SysExit(p, "outagePending") ELSE Goto(p, "k_chk2")

\* line 387: elif not(os.path.exists(outageFilePath))
ControlChk2(p) ==
    /\ p \in Controls /\ ppc[p] = "k_chk2"
    /\ IF ~markers["outageRequested"] THEN Goto(p, "k_mk") ELSE SysExit(p, "nothingDone")

\* lines 391-398: open(outageFilePath, 'a').close(); an exception is logged
ControlMk(p) ==
    /\ p \in Controls /\ ppc[p] = "k_mk"
    /\ \E ok \in BOOLEAN :
         IF ok /\ dataDir
         THEN /\ markers' = [markers EXCEPT !["outageRequested"] = TRUE]
              /\ made' = [made EXCEPT ![p] = @ \cup {"outageRequested"}]
              /\ Exit(p, 0, "outageSet")
              /\ UNCHANGED <<dataDir, removed, reqAge>>
         ELSE SysExit(p, "outageFailed")

(***************************************************************************)
(* Time                                                                    *)
(***************************************************************************)
\* one time unit passes; the steps of the invocations take no time, so it passes
\* only while every running invocation sleeps
Tick ==
    /\ Quiet
    /\ \E p \in Procs : ppc[p] \in {"sleep", "s_wait"}
    /\ timer' = [p \in Procs |-> IF timer[p] > 0 THEN timer[p] - 1 ELSE 0]
    /\ slept' = [p \in Procs |-> IF ppc[p] = "s_wait" THEN slept[p] + 1 ELSE slept[p]]
    /\ reqAge' = IF markers["shutdownRequested"] THEN Min(reqAge + 1, AgeCap) ELSE reqAge
    /\ UNCHANGED <<dataDir, markers, portOwner, ppc, port, pwrOutSim, exitCode, report,
                   trigger, sockCreated, made, removed, svars>>

(***************************************************************************)
(* Specifications                                                          *)
(***************************************************************************)
InitThreads ==
    /\ pending = <<>>
    /\ activeLog = <<>>
    /\ pc = [s \in Conns |-> "none"]
    /\ connected = [s \in Conns |-> FALSE]
    /\ msgLength = [s \in Conns |-> 0]
    /\ msg = [s \in Conns |-> <<>>]
    /\ sockOpen = [s \in Conns |-> FALSE]
    /\ out = [s \in Conns |-> <<>>]
    /\ cst = [s \in Conns |-> "idle"]
    /\ inbuf = [s \in Conns |-> <<>>]
    /\ nSends = 0
    /\ sent = [s \in Conns |-> <<>>]
    /\ nShort = 0
    /\ rpos = [s \in Conns |-> 0]
    /\ marks = [s \in Conns |-> {0}]
    /\ intact = [s \in Conns |-> TRUE]
    /\ log = [s \in Conns |-> <<>>]

\* no invocation has been run
InitProcs ==
    /\ portOwner = [q \in Ports |-> "none"]
    /\ ppc = [p \in Procs |-> "idle"]
    /\ timer = [p \in Procs |-> 0]
    /\ port = [p \in Starts |-> DefaultPort]
    /\ pwrOutSim = [p \in Controls |-> FALSE]
    /\ exitCode = [p \in Procs |-> -1]
    /\ report = [p \in Procs |-> "none"]
    /\ trigger = [p \in Procs |-> "none"]
    /\ sockCreated = [p \in Procs |-> FALSE]
    /\ made = [p \in Procs |-> {}]
    /\ removed = [p \in Procs |-> {}]
    /\ slept = [p \in Procs |-> 0]

\* before anything is run: the data folder may or may not exist yet
Init ==
    /\ InitThreads
    /\ lpc = "off"
    /\ InitProcs
    /\ dataDir \in BOOLEAN
    /\ markers = [m \in Markers |-> FALSE]
    /\ reqAge = 0

\* as Init, with markers that earlier runs have left in the data folder
InitLeftOver(left) ==
    /\ InitThreads
    /\ lpc = "off"
    /\ InitProcs
    /\ dataDir \in BOOLEAN
    /\ \E ms \in SUBSET left :
         /\ ms # {} => dataDir
         /\ markers = [m \in Markers |-> m \in ms]
         /\ reqAge = IF "shutdownRequested" \in ms THEN AgeCap ELSE 0

\* start1 has been run on the default port and has reached its poll loop
\* (line 481): the listener thread is waiting in accept, no client has connected
InitSession ==
    /\ InitThreads
    /\ lpc = "accept"
    /\ dataDir = TRUE
    /\ markers = [m \in Markers |-> m = "serverRunning"]
    /\ portOwner = [q \in Ports |-> IF q = DefaultPort THEN "start1" ELSE "none"]
    /\ ppc = [p \in Procs |-> IF p = "start1" THEN "sleep" ELSE "idle"]
    /\ timer = [p \in Procs |-> IF p = "start1" THEN PollInterval ELSE 0]
    /\ port = [p \in Starts |-> DefaultPort]
    /\ pwrOutSim = [p \in Controls |-> FALSE]
    /\ exitCode = [p \in Procs |-> -1]
    /\ report = [p \in Procs |-> "none"]
    /\ trigger = [p \in Procs |-> "none"]
    /\ sockCreated = [p \in Procs |-> p = "start1"]
    /\ made = [p \in Procs |-> IF p = "start1" THEN {"serverRunning"} ELSE {}]
    /\ removed = [p \in Procs |-> {}]
    /\ slept = [p \in Procs |-> 0]
    /\ reqAge = 0

\* the threads of the server and the clients that have connected
ThreadStep ==
    \/ Accept
    \/ LogActive
    \/ \E s \in Conns : RecvHeader(s)
    \/ \E s \in Conns : RecvPayload(s)
    \/ \E s \in Conns : SendAck(s)
    \/ \E s \in Conns : CloseConn(s)
    \/ \E s \in Conns : \E m \in Payloads : ClientSendFrame(s, m)
    \/ \E s \in Conns : \E h \in BadHeaders : ClientSendBadHeader(s, h)
    \/ \E s \in Conns : ClientClose(s)
    \/ \E s \in Conns : ClientReset(s)

\* one client connects, and the server serves it
SessionNext == ThreadStep \/ ClientConnect(1)

\* a step of the main thread of a start invocation, up to serverStop
StartStep(p) ==
    \/ StartChkData(p)
    \/ StartMkData(p)
    \/ StartChkRunning(p)
    \/ StartBind(p)
    \/ StartMkRunning(p)
    \/ StartDaemon(p)
    \/ PollShutdown(p)
    \/ ServerExit(p)

\* a step of cleanup()
CleanStep(p) ==
    \/ \E i \in 1..Len(CleanOrder) : CleanChk(p, i)
    \/ \E i \in 1..Len(CleanOrder) : CleanRm(p, i)

\* a step of a stop invocation that finds no server
StopIdleStep(p) ==
    \/ StopChkData(p)
    \/ StopChkRunning(p)
    \/ StopExitIdle(p)

\* a step of a stop invocation that finds a server
StopLiveStep(p) ==
    \/ StopMkShutdown(p)
    \/ StopCheck(p)

\* a step of a control invocation
ControlStep(p) ==
    \/ ControlFlag(p)
    \/ ControlChk1(p)
    \/ ControlChk2(p)
    \/ ControlMk(p)

\* a step of the main thread of invocation p
ProcStep(p) ==
    \/ StartStep(p)
    \/ CleanStep(p)
    \/ StopIdleStep(p)
    \/ StopLiveStep(p)
    \/ ControlStep(p)

\* the invocations, run and interrupted by a user while the others sleep
LifecycleNext ==
    \/ \E p \in Procs : ProcStep(p)
    \/ \E p \in Procs : Quiet /\ Launch(p)
    \/ \E p \in Procs : Quiet /\ Relaunch(p)
    \/ \E p \in Starts : Quiet /\ Interrupt(p)
    \/ Tick

\* one start and one stop invocation, each run once
StopLiveNext ==
    \/ StartStep("start1")
    \/ CleanStep("start1")
    \/ CleanStep("stop1")
    \/ StopIdleStep("stop1")
    \/ StopLiveStep("stop1")
    \/ \E p \in {"start1", "stop1"} : Quiet /\ Launch(p)
    \/ Quiet /\ Interrupt("start1")
    \/ Tick

\* stop and control invocations, run one after the other, and no server
StopIdleNext ==
    \/ StopIdleStep("stop1")
    \/ CleanStep("stop1")
    \/ ControlStep("control1")
    \/ \E p \in {"stop1", "control1"} : Quiet /\ Launch(p)
    \/ \E p \in {"stop1", "control1"} : Quiet /\ Relaunch(p)

\* the threads of the server
ServerStep ==
    \/ Accept
    \/ LogActive
    \/ \E s \in Conns : RecvHeader(s)
    \/ \E s \in Conns : RecvPayload(s)
    \/ \E s \in Conns : SendAck(s)
    \/ \E s \in Conns : CloseConn(s)

\* several clients at once, each sending one message or one header that is none
ClientsNext ==
    \/ ServerStep
    \/ \E s \in Conns : ClientConnect(s)
    \/ \E s \in Conns : \E m \in Payloads : sent[s] = <<>> /\ ClientSendFrame(s, m)
    \/ \E s \in Conns : \E h \in BadHeaders : sent[s] = <<>> /\ ClientSendBadHeader(s, h)
    \/ \E s \in Conns : ClientClose(s)
    \/ \E s \in Conns : ClientReset(s)

\* several connections served at once by a running server
SpecClients == InitSession /\ [][ClientsNext]_vars

\* two start invocations run at any moment, each once, and interrupted at any
\* moment of their sleep
TwoStartsNext ==
    \/ \E p \in Starts : StartStep(p)
    \/ \E p \in Starts : CleanStep(p)
    \/ \E p \in Starts : Launch(p)
    \/ \E p \in Starts : Interrupt(p)
    \/ Tick

\* two start invocations side by side
SpecTwoStarts == Init /\ [][TwoStartsNext]_vars

\* a start, a stop and a control invocation run at any moment, each once; the
\* server is interrupted at any moment of its sleep
RaceNext ==
    \/ StartStep("start1")
    \/ \E p \in {"start1", "stop1"} : CleanStep(p)
    \/ StopIdleStep("stop1")
    \/ StopLiveStep("stop1")
    \/ ControlStep("control1")
    \/ \E p \in {"start1", "stop1", "control1"} : Launch(p)
    \/ Interrupt("start1")
    \/ Tick

\* a server with a stop and a control invocation side by side
SpecRace == Init /\ [][RaceNext]_vars

\* one connection served by a running server
SpecSession == InitSession /\ [][SessionNext]_vars

\* the invocations alone, no client connected
SpecLifecycle == Init /\ [][LifecycleNext]_vars

\* a server and a stop invocation; an outage request may be pending
SpecStopLive == InitLeftOver({"outageRequested"}) /\ [][StopLiveNext]_vars

\* stop invocations with no server; outage and shutdown requests may be left over
SpecStopIdle ==
    InitLeftOver({"outageRequested", "shutdownRequested"}) /\ [][StopIdleNext]_vars

Next == ThreadStep \/ (\E s \in Conns : ClientConnect(s)) \/ LifecycleNext

Spec == Init /\ [][Next]_vars

(***************************************************************************)
(* The claims about the sessions (SpecSession)                             *)
(***************************************************************************)
\* the last thing session s did
LastIs(s, e) == log[s] # <<>> /\ log[s][Len(log[s])] = e

\* what session s did after its i-th step
After(s, i) == SubSeq(log[s], i + 1, Len(log[s]))

\* the acknowledgments session s has logged
AcksLogged(s) == Cardinality({i \in 1..Len(log[s]) : log[s][i] = "ack"})

\* the frames of the client that session s has read to their last byte
FramesRead(s) == Cardinality({m \in marks[s] : m > 0 /\ m <= rpos[s]})

\* C1: once a payload read has returned "!DISCONNECT", the session sends one
\* acknowledgment and only then closes the connection; it reads no further header
\* and sends no further acknowledgment (the send may fail on a broken connection,
\* and then nothing more happens at all).
C1_DisconnectAckThenClose ==
    \A s \in Conns :
        /\ Len(out[s]) = AcksLogged(s)
        /\ LastIs(s, "close") <=> (pc[s] = "closed" /\ ~sockOpen[s])
        /\ \A i \in 1..Len(log[s]) :
             log[s][i] = "disc" =>
                 After(s, i) \in {<<>>, <<"ack">>, <<"ack", "close">>, <<"ioerr">>}

\* C1 witness: a session that read the sentinel, acknowledged it and closed
C1_Witness ==
    \E s \in Conns :
        /\ pc[s] = "closed" /\ ~sockOpen[s] /\ msg[s] = disconnect
        /\ Len(log[s]) >= 3 /\ After(s, Len(log[s]) - 3) = <<"disc", "ack", "close">>

\* C2 (as claimed): after a header read that returned nothing, the session leaves
\* its loop and closes the connection.
C2_EmptyReadCloses ==
    \A s \in Conns : LastIs(s, "empty") => pc[s] \in {"closing", "closed"}

C4_PayloadReadWhole ==
    \A s \in Conns :
        cst[s] = "open" =>
            /\ pc[s] = "ack" => Len(msg[s]) = msgLength[s]
            /\ pc[s] = "header" => rpos[s] \in marks[s]

\* C5 (as claimed): a header that is no length ends the session in CLOSED, and
\* the listener goes on.
C5_FramingErrorCloses ==
    \A s \in Conns :
        LastIs(s, "valerr") => (pc[s] \in {"closing", "closed"} /\ lpc # "off")

\* C6 (as claimed): a session that has ended has released its connection.
C6_EveryExitReleases ==
    \A s \in Conns : pc[s] \in {"closed", "crashed"} => ~sockOpen[s]

(***************************************************************************)
(* The claims about the invocations                                        *)
(***************************************************************************)
\* C7 (SpecLifecycle): a start invocation that finds serverRunning present ends
\* there, and it has created no socket, bound no port and neither created nor
\* deleted a marker.
C7_SecondStartAborts ==
    /\ [](\A p \in Starts :
            report[p] = "alreadyRunning" =>
                /\ ~sockCreated[p]
                /\ \A q \in Ports : portOwner[q] # p
                /\ made[p] = {} /\ removed[p] = {})
    /\ [][\A p \in Starts :
            (ppc[p] = "chkRunning" /\ markers["serverRunning"] /\ ppc'[p] # ppc[p]) =>
                /\ ppc'[p] = "exited" /\ report'[p] = "alreadyRunning"
                /\ markers' = markers /\ portOwner' = portOwner]_vars

\* C7 witness: a start invocation gave up next to a running server
C7_Witness ==
    \E p, r \in Starts :
        /\ report[p] = "alreadyRunning" /\ ppc[p] = "exited"
        /\ ppc[r] = "sleep" /\ markers["serverRunning"]

\* C8 (as claimed): the exit status is 0 on success and on already-stopped, and
\* not 0 when a start is given up or a stop has waited in vain.
C8_ExitCodes ==
    \A p \in Procs :
        /\ report[p] \in {"stopped", "stopOk", "alreadyStopped", "nothingRunning"}
               => exitCode[p] = 0
        /\ report[p] \in {"mkdirFailed", "alreadyRunning", "bindFailed", "stopTimeout"}
               => exitCode[p] # 0

\* C9 (SpecStopLive): a stop invocation that finds serverRunning creates
\* shutdownRequested; the server does not sleep on with a request older than one
\* poll interval, and it is gone when the stop invocation has waited longer than
\* that; when the server has ended no marker is left; the stop invocation ends
\* after a wait of 20 with a report of success and status 0.
C9_StopLiveServer ==
    /\ \A q \in Stops : ppc[q] = "s_wait" => "shutdownRequested" \in made[q]
    /\ \A p \in Starts :
         /\ (ppc[p] = "sleep" /\ markers["shutdownRequested"]) => reqAge <= PollInterval
         /\ (ppc[p] = "exited" /\ trigger[p] = "poll") => \A m \in Markers : ~markers[m]
    /\ \A q \in Stops : \A p \in Starts :
         ("shutdownRequested" \in made[q] /\ slept[q] > PollInterval) =>
             ppc[p] \in {"idle", "exited"}
    /\ \A q \in Stops :
         (ppc[q] = "exited" /\ "shutdownRequested" \in made[q]) =>
             report[q] = "stopOk" /\ exitCode[q] = 0 /\ slept[q] = StopWait

\* C9 witness: the server found the request at a poll, removed all three markers
\* and ended, and the stop invocation reported success
C9_Witness ==
    \E p \in Starts : \E q \in Stops :
        /\ report[q] = "stopOk" /\ slept[q] = StopWait
        /\ trigger[p] = "poll" /\ ppc[p] = "exited" /\ removed[p] = Markers

\* C10 (SpecStopIdle): a stop invocation that finds the data folder and no
\* serverRunning goes into cleanup; when it ends, outageRequested and
\* shutdownRequested are gone, its status is 0, it has not waited and it has
\* created no marker.
C10_StopWithoutServer ==
    /\ [](\A q \in Stops :
            /\ report[q] # "crashed"
            /\ report[q] = "alreadyStopped" =>
                 exitCode[q] = 0 /\ slept[q] = 0 /\ made[q] = {})
    /\ [][\A q \in Stops :
            /\ (ppc[q] = "s_chkRunning" /\ ~markers["serverRunning"] /\ ppc'[q] # ppc[q])
                  => ppc'[q] = ChkPc[1]
            /\ (ppc[q] = "stopIdleExit" /\ ppc'[q] # ppc[q]) =>
                  /\ report'[q] = "alreadyStopped"
                  /\ ~markers'["outageRequested"] /\ ~markers'["shutdownRequested"]]_vars

\* C10 witness: the stop invocation deleted both left-over markers
C10_Witness ==
    \E q \in Stops :
        /\ report[q] = "alreadyStopped" /\ exitCode[q] = 0
        /\ removed[q] = {"outageRequested", "shutdownRequested"}

\* the positions inside cleanup()
CleanPcs == {ChkPc[i] : i \in 1..Len(ChkPc)} \cup {RmPc[i] : i \in 1..Len(RmPc)}

\* C11 (SpecLifecycle): when cleanup() returns, no marker is left, whether the
\* server stops on an interrupt or on a shutdown request and whatever markers there
\* were; it never fails on a marker that is missing; and a cleanup that starts with
\* no marker present deletes nothing and returns.
C11_CleanupRemovesAll ==
    /\ [](\A p \in Procs :
            /\ ppc[p] # "srvExitErr"
            /\ report[p] \notin {"stoppedNoCleanup", "crashed"})
    /\ [][\A p \in Starts \cup Stops :
            /\ (ppc[p] # AfterClean(p) /\ ppc'[p] = AfterClean(p)) =>
                   \A m \in Markers : ~markers'[m]
            /\ ((\A m \in Markers : ~markers[m]) /\ ppc[p] \in CleanPcs
                    /\ ppc'[p] # ppc[p]) =>
                   /\ markers' = markers /\ removed'[p] = removed[p]
                   /\ ppc'[p] \in CleanPcs \cup {AfterClean(p)}]_vars

\* C11 witness: a server that was interrupted with all three markers present has
\* deleted them, and the cleanup of a later stop invocation had nothing to delete
C11_Witness ==
    \E p \in Starts : \E q \in Stops :
        /\ ppc[p] = "exited" /\ trigger[p] = "interrupt" /\ removed[p] = Markers
        /\ report[q] = "alreadyStopped" /\ removed[q] = {}
        /\ \A m \in Markers : ~markers[m]

\* C12 (SpecLifecycle): a start invocation leaves the bind either as the owner of
\* its port or by ending with the report of the failure and nothing else changed;
\* serverRunning is created only by an invocation that owns its port, and only
\* such an invocation reaches the poll loop or has a listener.
C12_MarkerOnlyAfterBind ==
    /\ [](\A p \in Starts :
            /\ report[p] = "bindFailed" =>
                 /\ ppc[p] = "exited" /\ made[p] = {} /\ trigger[p] = "none"
                 /\ \A q \in Ports : portOwner[q] # p
            /\ ppc[p] \in {"mkRunning", "daemon", "sleep"} => portOwner[port[p]] = p
            /\ "serverRunning" \in made[p] => sockCreated[p])
    /\ [](lpc # "off" => portOwner[DefaultPort] # "none")
    /\ [][\A p \in Starts :
            (ppc[p] = "bind" /\ ppc'[p] # "bind") =>
                \/ ppc'[p] = "mkRunning" /\ portOwner'[port[p]] = p
                \/ /\ ppc'[p] = "exited" /\ report'[p] = "bindFailed"
                   /\ markers' = markers /\ lpc' = lpc /\ portOwner' = portOwner]_vars

\* C12 witness: a bind failed and there is no serverRunning marker
C12_Witness ==
    \E p \in Starts :
        /\ report[p] = "bindFailed" /\ ppc[p] = "exited"
        /\ ~markers["serverRunning"] /\ lpc = "off"

\* C13 (SpecLifecycle): a stop invocation whose wait ends with serverRunning
\* present ends with the report of the failure; that step changes no marker, no
\* port and no other invocation, and the invocation has deleted nothing.
C13_StopTimeoutLeavesServer ==
    /\ [](\A q \in Stops : report[q] = "stopTimeout" => removed[q] = {})
    /\ [][\A q \in Stops :
            (ppc[q] = "s_wait" /\ ppc'[q] # "s_wait" /\ markers["serverRunning"]) =>
                /\ ppc'[q] = "exited" /\ report'[q] = "stopTimeout"
                /\ markers' = markers /\ portOwner' = portOwner /\ lpc' = lpc
                /\ \A p \in Starts : ppc'[p] = ppc[p]]_vars

\* C13 witness: the stop invocation gave up and a server is still in its poll loop
C13_Witness ==
    \E q \in Stops : \E p \in Starts :
        /\ report[q] = "stopTimeout" /\ ppc[q] = "exited"
        /\ ppc[p] = "sleep" /\ portOwner[port[p]] = p /\ markers["serverRunning"]

(***************************************************************************)
(* The claims about concurrent sessions (SpecClients)                      *)
(***************************************************************************)
\* session s can do nothing until its client sends more: its thread has ended, or
\* it is at the header read with nothing left to read
Waiting(s) == pc[s] \in {"closed", "crashed"} \/ (pc[s] = "header" /\ inbuf[s] = <<>>)

\* C14 (SpecClients): the step in which a session thread dies of an exception
\* changes nothing of any other session and nothing of the listener; the listener
\* never stops; and a session whose client has sent a well-formed frame and has not
\* broken the connection does not come to rest before it has acknowledged it,
\* whatever the other client does.
C14_SessionErrorsIsolated ==
    /\ [](lpc # "off")
    /\ [](\A s \in Conns : pc[s] # "killed")
    /\ [](\A s \in Conns :
            (sent[s] # <<>> /\ sent[s][1] # Junk /\ cst[s] # "reset"
                 /\ pc[s] # "none" /\ Waiting(s)) => Len(out[s]) >= 1)
    /\ [][\A s \in Conns :
            (pc[s] # "crashed" /\ pc'[s] = "crashed") =>
                /\ lpc' = lpc /\ pending' = pending /\ activeLog' = activeLog
                /\ \A t \in Conns \ {s} :
                     /\ pc'[t] = pc[t] /\ sockOpen'[t] = sockOpen[t]
                     /\ connected'[t] = connected[t] /\ msgLength'[t] = msgLength[t]
                     /\ msg'[t] = msg[t] /\ out'[t] = out[t] /\ inbuf'[t] = inbuf[t]]_vars

\* C14 witness: one session has died of a header that is no length, and the other
\* client's frame has been acknowledged after that
C14_Witness ==
    \E s, t \in Conns :
        /\ s # t /\ pc[s] = "crashed" /\ sent[s] = <<Junk>>
        /\ sent[t] = <<HeyThere>> /\ out[t] = <<AckMsg>> /\ msg[t] = HeyThere
        /\ activeLog = <<1, 1>>

\* the sessions the server holds whose client it has not seen leave
Connected == {s \in Alive : ~LastIs(s, "empty")}

\* C15 (as claimed): the count the listener logs is the number of sessions whose
\* client has not been seen to leave.
C15_ActiveCountIsConnected ==
    [][(lpc = "log" /\ lpc' = "accept") =>
          activeLog'[Len(activeLog')] = Cardinality(Connected)]_vars

(***************************************************************************)
(* The claims about the control invocation                                 *)
(***************************************************************************)
\* C16 (SpecLifecycle): a control invocation that finds outageRequested present
\* reports that a command is pending and changes no marker; one that finds it
\* absent creates it and nothing else, or, when the file cannot be created, reports
\* that and changes no marker; it never deletes a marker.
C16_ControlGuarded ==
    /\ [](\A k \in Controls :
            /\ removed[k] = {} /\ made[k] \subseteq {"outageRequested"}
            /\ report[k] = "outagePending" => made[k] = {}
            /\ report[k] = "outageSet" => made[k] = {"outageRequested"})
    /\ [][\A k \in Controls :
            /\ (ppc[k] = "k_chk1" /\ ppc'[k] # ppc[k] /\ markers["outageRequested"]) =>
                   ppc'[k] = "exited" /\ report'[k] = "outagePending" /\ markers' = markers
            /\ (ppc[k] = "k_mk" /\ ppc'[k] # ppc[k]) =>
                   /\ ppc'[k] = "exited"
                   /\ \/ /\ report'[k] = "outageSet"
                         /\ markers' = [markers EXCEPT !["outageRequested"] = TRUE]
                      \/ report'[k] = "outageFailed" /\ markers' = markers]_vars

\* C16 witness: the control invocation, run again, found the outage request of an
\* earlier run
C16_Witness ==
    \E k \in Controls :
        /\ report[k] = "outagePending" /\ ppc[k] = "exited"
        /\ markers["outageRequested"] /\ made[k] = {}

\* C16 (as claimed): a control invocation that finds outageRequested absent has
\* created it when it ends.
C16_AbsentIsCreated ==
    [][\A k \in Controls :
          (ppc[k] = "k_mk" /\ ppc'[k] = "exited") => markers'["outageRequested"]]_vars

(***************************************************************************)
(* The claims about the framing (SpecSession)                              *)
(***************************************************************************)
\* the agent's frame for message M is a 64-byte header, the decimal length of M
\* padded with spaces, then M; and int() of the header gives the length of M
CodecOk(M) ==
    LET h == AgentHeader(M)
        d == DecStr(Len(M))
    IN  /\ Len(h) = HEADER
        /\ SubSeq(h, 1, Len(d)) = d
        /\ \A i \in (Len(d) + 1)..HEADER : h[i] = " "
        /\ AgentEncode(M) = h \o M
        /\ IntOk(h) /\ IntVal(h) = Len(M)

\* client s has sent frames only
FramesOnly(s) == \A i \in 1..Len(sent[s]) : sent[s][i] # Junk

Running(p) == p \in Starts /\ ppc[p] \in {"daemon", "sleep"}

\* C18 (as claimed): of two start invocations run side by side, at most one is a
\* running server.
C18_OneServerPerDataDir == Cardinality({p \in Starts : Running(p)}) <= 1

\* C19 (as claimed): while an invocation is a running server, serverRunning is
\* present.
C19_RunningHasMarker == \A p \in Starts : Running(p) => markers["serverRunning"]

\* C20 (as claimed): when no start invocation and no stop invocation is under
\* way, shutdownRequested is absent.
C20_NoStaleShutdown ==
    (\A p \in Starts \cup Stops : ppc[p] \in {"idle", "exited"})
        => ~markers["shutdownRequested"]

====
